---------------------------- MODULE Spec2Model ----------------------------
(***************************************************************************)
(* A model of timvw/gokafkaavro: the Confluent wire-format Codec           *)
(* (Decode / Encode with its (subject, version) -> codec cache), the       *)
(* single-schema Encoder (NewEncoder / Encoder.Encode) and the demo        *)
(* consumer's schema cache.                                                *)
(*                                                                         *)
(* Go values are represented as follows.                                   *)
(*  - A Go int (64 bit) is a pair <<q, r>> standing for q * 2^16 + r with  *)
(*    0 <= r < 2^16: TLC's integers are 32 bit, the version header of the  *)
(*    frame is an unsigned 32 bit value and the model has to hold ints     *)
(*    that do not fit it.                                                  *)
(*  - A []byte is a record [arr, len]: arr is the backing array from the   *)
(*    slice's first element on (Len(arr) is cap), len its length.          *)
(*  - A native datum is a record [kind, val]; nil is NilNative.            *)
(*  - An error is a string, nil is NoErr.                                  *)
(***************************************************************************)
EXTENDS Integers, Sequences, FiniteSets, TLC

VARIABLES
    registry,      \* the schema registry's registrations [subject, version, schema]
    codecCache,    \* Codec.codecCache: subjectVersionID -> codec
    encoder,       \* the Encoder value the last NewEncoder returned
    schemaCache,   \* the demo consumer's schemaCache: schemaCacheKey -> schema text
    subjectNameStrategy,  \* Codec.subjectNameStrategy: the name of the function it holds
    goroutines,    \* concurrent callers inside getCodecFor: their position and locals
    crashed,       \* an unrecovered run-time panic or fatal error has ended the process
    last,          \* the call being returned: its arguments, results and registry traffic
    frame,         \* history: the last frame Encode returned, with the call's arguments
    watchKey,      \* history: the cache key whose resolutions are followed
    watchLookups,  \* history: GetSchemaFor calls made for watchKey
    watchFailed,   \* history: a resolution of watchKey has failed
    watchResolved  \* history: a resolution of watchKey has succeeded

vars == <<registry, codecCache, encoder, schemaCache, subjectNameStrategy, goroutines,
          crashed, last, frame, watchKey, watchLookups, watchFailed, watchResolved>>

-----------------------------------------------------------------------------
(* Bounds of the model *)

\* schemas that may be registered on top of the seeded registrations
MaxNewRegistrations == 1

\* GetSchemaFor calls counted for the watched key
MaxLookups == 2

\* goroutines calling into one Codec at the same time
NumGoroutines == 2

-----------------------------------------------------------------------------
(* Go ints and bytes *)

Limb == 256 * 256

GoInt(n) == <<n \div Limb, n % Limb>>

GoIntSucc(v) == IF v[2] + 1 < Limb THEN <<v[1], v[2] + 1>> ELSE <<v[1] + 1, 0>>

GoIntLess(a, b) == a[1] < b[1] \/ (a[1] = b[1] /\ a[2] < b[2])

\* the ints that an unsigned 32 bit header holds: 0 .. 2^32 - 1
FitsUint32(v) == v[1] >= 0 /\ v[1] < Limb

Slice(bytes) == [arr |-> bytes, len |-> Len(bytes)]

NilSlice == Slice(<< >>)

\* s[:n] of a backing array: the first n bytes visible, the rest within cap
SliceOf(bytes, n) == [arr |-> bytes, len |-> n]

Bytes(d) == SubSeq(d.arr, 1, d.len)

NoErr == ""

NilNative == [kind |-> "nil", val |-> << >>]

Long(n) == [kind |-> "long", val |-> <<n>>]

String(bytes) == [kind |-> "string", val |-> bytes]

-----------------------------------------------------------------------------
(* goavro, the binary codec provider (spec section 6: compile, codec.encode, *)
(* codec.decode).  A codec is identified by the schema text it was compiled  *)
(* from.  Two Avro schemas are modelled, "long" (zig-zag varint) and         *)
(* "string" (a long length, then the bytes), and a text that does not        *)
(* compile.                                                                  *)

SLong == "\"long\""

SString == "\"string\""

SBad == "{"

Schemas == {SLong, SString, SBad}

NilCodec == [schema |-> ""]

ErrCompile == "SchemaCompileError"

ErrEncode == "EncodeError"

ErrDecode == "DecodeError"

\* goavro.NewCodec(schemaText)
goavroNewCodec(schemaText) ==
    IF schemaText \in {SLong, SString}
    THEN [codec |-> [schema |-> schemaText], err |-> NoErr]
    ELSE [codec |-> NilCodec, err |-> ErrCompile]

ZigZag(n) == IF n >= 0 THEN 2 * n ELSE (0 - 2 * n) - 1

UnZigZag(u) == IF u % 2 = 0 THEN u \div 2 ELSE 0 - ((u + 1) \div 2)

\* the varint at the head of buf: [ok, value, rest]; longs of the model fit
\* two varint bytes
ReadVarint(buf) ==
    IF Len(buf) = 0 THEN [ok |-> FALSE, value |-> 0, rest |-> buf]
    ELSE IF buf[1] < 128
    THEN [ok |-> TRUE, value |-> UnZigZag(buf[1]), rest |-> Tail(buf)]
    ELSE IF Len(buf) >= 2 /\ buf[2] < 128
    THEN [ok |-> TRUE, value |-> UnZigZag((buf[1] - 128) + 128 * buf[2]),
          rest |-> Tail(Tail(buf))]
    ELSE [ok |-> FALSE, value |-> 0, rest |-> buf]

WriteVarint(n) ==
    LET u == ZigZag(n)
    IN  IF u < 128 THEN <<u>> ELSE <<128 + (u % 128), u \div 128>>

\* codec.BinaryFromNative(nil, native)
BinaryFromNative(codec, native) ==
    IF codec.schema = SLong /\ native.kind = "long"
    THEN [bytes |-> WriteVarint(native.val[1]), err |-> NoErr]
    ELSE IF codec.schema = SString /\ native.kind = "string"
    THEN [bytes |-> WriteVarint(Len(native.val)) \o native.val, err |-> NoErr]
    ELSE [bytes |-> << >>, err |-> ErrEncode]

\* codec.NativeFromBinary(buf): the datum at the head of buf; what follows it
\* is returned as the remainder and is no error
NativeFromBinary(codec, buf) ==
    LET h == ReadVarint(buf)
    IN  IF ~h.ok THEN [native |-> NilNative, err |-> ErrDecode]
        ELSE IF codec.schema = SLong
        THEN [native |-> Long(h.value), err |-> NoErr]
        ELSE IF codec.schema = SString /\ h.value >= 0 /\ Len(h.rest) >= h.value
        THEN [native |-> String(SubSeq(h.rest, 1, h.value)), err |-> NoErr]
        ELSE [native |-> NilNative, err |-> ErrDecode]

-----------------------------------------------------------------------------
(* The schema registry client (spec section 6: isRegistered,               *)
(* registerNewSchema, getVersionFor, getSchemaFor).  Every call may fail    *)
(* (fail: the network, or the registry refusing the request); a lookup of   *)
(* what is not registered fails too.                                        *)

ErrRegistry == "registry request failed"

ErrNotFound == "schema not found"

Registered(reg, subject, schema) ==
    {r \in reg : r.subject = subject /\ r.schema = schema}

VersionsOf(reg, subject) == {r.version : r \in {x \in reg : x.subject = subject}}

MaxVersion(vs) == CHOOSE v \in vs : \A w \in vs : ~GoIntLess(v, w)

NextVersion(reg, subject) ==
    IF VersionsOf(reg, subject) = {} THEN GoInt(1)
    ELSE GoIntSucc(MaxVersion(VersionsOf(reg, subject)))

Call(fn, subject, version, schema) ==
    [fn |-> fn, subject |-> subject, version |-> version, schema |-> schema]

\* client.GetVersionFor(subject, schema)
GetVersionFor(reg, subject, schema, fail) ==
    IF fail THEN [version |-> GoInt(0), err |-> ErrRegistry]
    ELSE IF Registered(reg, subject, schema) = {}
    THEN [version |-> GoInt(0), err |-> ErrNotFound]
    ELSE [version |-> (CHOOSE r \in Registered(reg, subject, schema) : TRUE).version,
          err |-> NoErr]

\* client.GetSchemaFor(subjectVersion), client.GetSchemaBySubject(subject, versionID)
GetSchemaFor(reg, key, fail) ==
    LET found == {r \in reg : r.subject = key.subject /\ r.version = key.versionID}
    IN  IF fail THEN [schema |-> "", err |-> ErrRegistry]
        ELSE IF found = {} THEN [schema |-> "", err |-> ErrNotFound]
        ELSE [schema |-> (CHOOSE r \in found : TRUE).schema, err |-> NoErr]

\* client.IsRegistered(subject, schema)
IsRegistered(reg, subject, schema, fail) ==
    IF fail THEN [isRegistered |-> FALSE, version |-> GoInt(0), err |-> ErrRegistry]
    ELSE IF Registered(reg, subject, schema) = {}
    THEN [isRegistered |-> FALSE, version |-> GoInt(0), err |-> NoErr]
    ELSE [isRegistered |-> TRUE,
          version |-> (CHOOSE r \in Registered(reg, subject, schema) : TRUE).version,
          err |-> NoErr]

\* client.RegisterNewSchema(subject, schema): the version of the registration,
\* a new one when the schema is not yet registered under the subject
RegisterNewSchema(reg, subject, schema, fail) ==
    IF fail THEN [version |-> GoInt(0), err |-> ErrRegistry, registry |-> reg]
    ELSE IF Registered(reg, subject, schema) # {}
    THEN [version |-> (CHOOSE r \in Registered(reg, subject, schema) : TRUE).version,
          err |-> NoErr, registry |-> reg]
    ELSE [version |-> NextVersion(reg, subject), err |-> NoErr,
          registry |-> reg \cup {[subject |-> subject,
                                  version |-> NextVersion(reg, subject),
                                  schema |-> schema]}]

-----------------------------------------------------------------------------
(* The Codec *)

ErrMagic == "Unknown magic byte"

NoKey == [subject |-> "", versionID |-> GoInt(0)]

\* Mutation of getTopicNameStrategy: the two suffixes are exchanged
getTopicNameStrategySwapped(topic, isKey) ==
    IF isKey THEN topic \o "-value" ELSE topic \o "-key"

\* getTopicNameStrategy(topic, isKey)
getTopicNameStrategy(topic, isKey) ==
    IF isKey THEN topic \o "-key" ELSE topic \o "-value"

\* a strategy that ignores the key/value distinction (spec section 4.1)
topicOnlyStrategy(topic, isKey) == topic

\* the functions a Codec's subjectNameStrategy field may hold, by name
SubjectNameStrategies == {"getTopicNameStrategy", "topicOnlyStrategy"}

\* c.subjectNameStrategy(topic, isKey) for the function the field holds
ApplySubjectNameStrategy(strategy, topic, isKey) ==
    IF strategy = "getTopicNameStrategy" THEN getTopicNameStrategy(topic, isKey)
    ELSE topicOnlyStrategy(topic, isKey)

\* Mutation of getSchemaID: the header read least significant byte first
getSchemaIDLittleEndian(data) ==
    <<data[4] * 256 + data[3], data[2] * 256 + data[1]>>

\* getSchemaID(data): int(binary.BigEndian.Uint32(data)), data of 4 bytes
getSchemaID(data) ==
    <<data[1] * 256 + data[2], data[3] * 256 + data[4]>>

\* Mutation of bytesForSchemaID: the header written least significant byte first
bytesForSchemaIDLittleEndian(schemaID) ==
    LET hi == schemaID[1] % Limb
        lo == schemaID[2]
    IN  <<lo % 256, lo \div 256, hi % 256, hi \div 256>>

\* Mutation of bytesForSchemaID: a version that does not fit 32 bits is
\* written as the nearest value that does
bytesForSchemaIDSaturating(schemaID) ==
    LET hi == schemaID[1]
        lo == schemaID[2]
    IN  IF hi < 0 THEN <<0, 0, 0, 0>>
        ELSE IF hi >= Limb THEN <<255, 255, 255, 255>>
        ELSE <<hi \div 256, hi % 256, lo \div 256, lo % 256>>

\* bytesForSchemaID(schemaID): binary.BigEndian.PutUint32(data, uint32(schemaID));
\* uint32() keeps the low 32 bits
bytesForSchemaID(schemaID) ==
    LET hi == schemaID[1] % Limb
        lo == schemaID[2]
    IN  <<hi \div 256, hi % 256, lo \div 256, lo % 256>>

\* Mutation of extractSubjectAndVersionFromData: the magic byte is not checked
extractSubjectAndVersionUnchecked(topic, isKey, data) ==
    IF data.len = 0 \/ Len(data.arr) < 5
    THEN [key |-> NoKey, err |-> NoErr, panic |-> TRUE]
    ELSE [key |-> [subject |-> getTopicNameStrategy(topic, isKey),
                   versionID |-> getSchemaID(SubSeq(data.arr, 2, 5))],
          err |-> NoErr, panic |-> FALSE]

\* extractSubjectAndVersionFromData(topic, isKey, data): [key, err, panic].
\* data[0] panics on an empty slice, data[1:5] panics when cap(data) < 5 and
\* reads the backing array beyond len(data) otherwise.
extractSubjectAndVersionFromData(topic, isKey, data) ==
    IF data.len = 0
    THEN [key |-> NoKey, err |-> NoErr, panic |-> TRUE]
    ELSE IF data.arr[1] # 0
    THEN [key |-> NoKey, err |-> ErrMagic, panic |-> FALSE]
    ELSE IF Len(data.arr) < 5
    THEN [key |-> NoKey, err |-> NoErr, panic |-> TRUE]
    ELSE [key |-> [subject |-> getTopicNameStrategy(topic, isKey),
                   versionID |-> getSchemaID(SubSeq(data.arr, 2, 5))],
          err |-> NoErr, panic |-> FALSE]

\* Mutation of getCodecFor: the compiled codec is returned and not stored
getCodecForUncached(cache, reg, subjectVersion, fail) ==
    LET got == GetSchemaFor(reg, subjectVersion, fail)
        calls == <<Call("GetSchemaFor", subjectVersion.subject,
                        subjectVersion.versionID, "")>>
        compiled == goavroNewCodec(got.schema)
    IN  IF subjectVersion \in DOMAIN cache
        THEN [codec |-> cache[subjectVersion], err |-> NoErr, cache |-> cache,
              calls |-> << >>]
        ELSE IF got.err # NoErr
        THEN [codec |-> NilCodec, err |-> got.err, cache |-> cache, calls |-> calls]
        ELSE [codec |-> compiled.codec, err |-> compiled.err, cache |-> cache,
              calls |-> calls]

\* Mutation of getCodecFor: the entry is stored before the compile error is
\* checked, so a text that does not compile leaves a nil codec in the cache
getCodecForPoisoning(cache, reg, subjectVersion, fail) ==
    LET got == GetSchemaFor(reg, subjectVersion, fail)
        calls == <<Call("GetSchemaFor", subjectVersion.subject,
                        subjectVersion.versionID, "")>>
        compiled == goavroNewCodec(got.schema)
    IN  IF subjectVersion \in DOMAIN cache
        THEN [codec |-> cache[subjectVersion], err |-> NoErr, cache |-> cache,
              calls |-> << >>]
        ELSE IF got.err # NoErr
        THEN [codec |-> NilCodec, err |-> got.err, cache |-> cache, calls |-> calls]
        ELSE [codec |-> compiled.codec, err |-> compiled.err,
              cache |-> (subjectVersion :> compiled.codec) @@ cache,
              calls |-> calls]

\* Mutation of getCodecFor: the cache holds one entry, storing a codec
\* evicts the entry of every other key
getCodecForEvicting(cache, reg, subjectVersion, fail) ==
    LET got == GetSchemaFor(reg, subjectVersion, fail)
        calls == <<Call("GetSchemaFor", subjectVersion.subject,
                        subjectVersion.versionID, "")>>
        compiled == goavroNewCodec(got.schema)
    IN  IF subjectVersion \in DOMAIN cache
        THEN [codec |-> cache[subjectVersion], err |-> NoErr, cache |-> cache,
              calls |-> << >>]
        ELSE IF got.err # NoErr
        THEN [codec |-> NilCodec, err |-> got.err, cache |-> cache, calls |-> calls]
        ELSE IF compiled.err # NoErr
        THEN [codec |-> NilCodec, err |-> compiled.err, cache |-> cache,
              calls |-> calls]
        ELSE [codec |-> compiled.codec, err |-> NoErr,
              cache |-> (subjectVersion :> compiled.codec), calls |-> calls]

\* c.getCodecFor(subjectVersion): [codec, err, cache, calls], cache being
\* c.codecCache after the call and calls the registry calls made
getCodecFor(cache, reg, subjectVersion, fail) ==
    IF subjectVersion \in DOMAIN cache
    THEN [codec |-> cache[subjectVersion], err |-> NoErr, cache |-> cache,
          calls |-> << >>]
    ELSE LET got == GetSchemaFor(reg, subjectVersion, fail)
             calls == <<Call("GetSchemaFor", subjectVersion.subject,
                             subjectVersion.versionID, "")>>
             compiled == goavroNewCodec(got.schema)
         IN  IF got.err # NoErr
             THEN [codec |-> NilCodec, err |-> got.err, cache |-> cache,
                   calls |-> calls]
             ELSE IF compiled.err # NoErr
             THEN [codec |-> NilCodec, err |-> compiled.err, cache |-> cache,
                   calls |-> calls]
             ELSE [codec |-> compiled.codec, err |-> NoErr,
                   cache |-> (subjectVersion :> compiled.codec) @@ cache,
                   calls |-> calls]

\* c.Decode(topic, isKey, data): [native, err, panic, key, resolveErr, cache,
\* calls], resolveErr being the error of getCodecFor.
\* data[5:] panics when len(data) < 5.
Decode(cache, reg, topic, isKey, data, fail) ==
    LET ex == extractSubjectAndVersionFromData(topic, isKey, data)
        got == getCodecFor(cache, reg, ex.key, fail)
        dec == NativeFromBinary(got.codec, SubSeq(data.arr, 6, data.len))
    IN  IF ex.panic \/ ex.err # NoErr
        THEN [native |-> NilNative, err |-> ex.err, panic |-> ex.panic,
              key |-> NoKey, resolveErr |-> NoErr, cache |-> cache,
              calls |-> << >>]
        ELSE IF got.err # NoErr
        THEN [native |-> NilNative, err |-> got.err, panic |-> FALSE,
              key |-> ex.key, resolveErr |-> got.err, cache |-> got.cache,
              calls |-> got.calls]
        ELSE IF data.len < 5
        THEN [native |-> NilNative, err |-> NoErr, panic |-> TRUE,
              key |-> ex.key, resolveErr |-> got.err, cache |-> got.cache,
              calls |-> got.calls]
        ELSE [native |-> dec.native, err |-> dec.err, panic |-> FALSE,
              key |-> ex.key, resolveErr |-> got.err, cache |-> got.cache,
              calls |-> got.calls]

\* Mutation of Encode: the version is obtained by registering the schema
EncodeRegistering(cache, reg, topic, isKey, schema, native, failVersion, failSchema) ==
    LET subject == getTopicNameStrategy(topic, isKey)
        ver == RegisterNewSchema(reg, subject, schema, failVersion)
        verCall == <<Call("RegisterNewSchema", subject, GoInt(0), schema)>>
        subjectVersionID == [subject |-> subject, versionID |-> ver.version]
        got == getCodecFor(cache, ver.registry, subjectVersionID, failSchema)
        enc == BinaryFromNative(got.codec, native)
        result(data, err, key, resolveErr, cacheAfter, calls) ==
            [data |-> data, err |-> err, key |-> key, version |-> ver.version,
             resolveErr |-> resolveErr, cache |-> cacheAfter,
             registry |-> ver.registry, calls |-> calls]
    IN  IF ver.err # NoErr
        THEN result(NilSlice, ver.err, NoKey, NoErr, cache, verCall)
        ELSE IF got.err # NoErr
        THEN result(NilSlice, got.err, subjectVersionID, got.err, got.cache,
                    verCall \o got.calls)
        ELSE IF enc.err # NoErr
        THEN result(NilSlice, enc.err, subjectVersionID, got.err, got.cache,
                    verCall \o got.calls)
        ELSE result(Slice((<<0>> \o bytesForSchemaID(ver.version)) \o enc.bytes),
                    NoErr, subjectVersionID, got.err, got.cache,
                    verCall \o got.calls)

\* Mutation of Encode: the caller's schema text is compiled directly and the
\* registry-backed cache is not used
EncodeCompilingDirectly(cache, reg, topic, isKey, schema, native, failVersion, failSchema) ==
    LET subject == getTopicNameStrategy(topic, isKey)
        ver == GetVersionFor(reg, subject, schema, failVersion)
        verCall == <<Call("GetVersionFor", subject, GoInt(0), schema)>>
        subjectVersionID == [subject |-> subject, versionID |-> ver.version]
        compiled == goavroNewCodec(schema)
        enc == BinaryFromNative(compiled.codec, native)
        result(data, err, key, resolveErr) ==
            [data |-> data, err |-> err, key |-> key, version |-> ver.version,
             resolveErr |-> resolveErr, cache |-> cache, registry |-> reg,
             calls |-> verCall]
    IN  IF ver.err # NoErr
        THEN result(NilSlice, ver.err, NoKey, NoErr)
        ELSE IF compiled.err # NoErr
        THEN result(NilSlice, compiled.err, subjectVersionID, compiled.err)
        ELSE IF enc.err # NoErr
        THEN result(NilSlice, enc.err, subjectVersionID, NoErr)
        ELSE result(Slice((<<0>> \o bytesForSchemaID(ver.version)) \o enc.bytes),
                    NoErr, subjectVersionID, NoErr)

\* Mutation of Encode: the frame is built before the serialization error is
\* checked, so a failed serialization returns the header with the error
EncodePartialFrame(cache, reg, topic, isKey, schema, native, failVersion, failSchema) ==
    LET subject == getTopicNameStrategy(topic, isKey)
        ver == GetVersionFor(reg, subject, schema, failVersion)
        verCall == <<Call("GetVersionFor", subject, GoInt(0), schema)>>
        subjectVersionID == [subject |-> subject, versionID |-> ver.version]
        got == getCodecFor(cache, reg, subjectVersionID, failSchema)
        enc == BinaryFromNative(got.codec, native)
        result(data, err, key, resolveErr, cacheAfter, calls) ==
            [data |-> data, err |-> err, key |-> key, version |-> ver.version,
             resolveErr |-> resolveErr, cache |-> cacheAfter,
             registry |-> reg, calls |-> calls]
    IN  IF ver.err # NoErr
        THEN result(NilSlice, ver.err, NoKey, NoErr, cache, verCall)
        ELSE IF got.err # NoErr
        THEN result(NilSlice, got.err, subjectVersionID, got.err, got.cache,
                    verCall \o got.calls)
        ELSE result(Slice((<<0>> \o bytesForSchemaID(ver.version)) \o enc.bytes),
                    enc.err, subjectVersionID, got.err, got.cache,
                    verCall \o got.calls)

\* c.Encode(topic, isKey, schema, native): [data, err, key, version,
\* resolveErr, cache, registry, calls], version being what GetVersionFor
\* returned, resolveErr the error of getCodecFor and registry the
\* registrations after the call
Encode(cache, reg, topic, isKey, schema, native, failVersion, failSchema) ==
    LET subject == getTopicNameStrategy(topic, isKey)
        ver == GetVersionFor(reg, subject, schema, failVersion)
        verCall == <<Call("GetVersionFor", subject, GoInt(0), schema)>>
        subjectVersionID == [subject |-> subject, versionID |-> ver.version]
        got == getCodecFor(cache, reg, subjectVersionID, failSchema)
        magicByte == <<0>>
        versionBytes == bytesForSchemaID(subjectVersionID.versionID)
        enc == BinaryFromNative(got.codec, native)
    IN  IF ver.err # NoErr
        THEN [data |-> NilSlice, err |-> ver.err, key |-> NoKey,
              version |-> ver.version, resolveErr |-> NoErr, cache |-> cache,
              registry |-> reg, calls |-> verCall]
        ELSE IF got.err # NoErr
        THEN [data |-> NilSlice, err |-> got.err, key |-> subjectVersionID,
              version |-> ver.version, resolveErr |-> got.err,
              cache |-> got.cache, registry |-> reg,
              calls |-> verCall \o got.calls]
        ELSE IF enc.err # NoErr
        THEN [data |-> NilSlice, err |-> enc.err, key |-> subjectVersionID,
              version |-> ver.version, resolveErr |-> got.err,
              cache |-> got.cache, registry |-> reg,
              calls |-> verCall \o got.calls]
        ELSE [data |-> Slice((magicByte \o versionBytes) \o enc.bytes),
              err |-> NoErr, key |-> subjectVersionID,
              version |-> ver.version, resolveErr |-> got.err,
              cache |-> got.cache, registry |-> reg,
              calls |-> verCall \o got.calls]

-----------------------------------------------------------------------------
(* The single-schema Encoder *)

ErrNotRegistered == "There is no registration on subject for schema"

NoEncoder == [subjectVersion |-> GoInt(0), codec |-> NilCodec]

\* Mutations of NewEncoder.  registerOnMiss: without autoRegister, a schema
\* that is not registered is registered instead of refused.  bindVersion: the
\* version the registry returned is bound, or it is left zero.
NewEncoderVariant(reg, autoRegister, subjectName, avroSchema, fail, registerOnMiss, bindVersion) ==
    LET isReg == IsRegistered(reg, subjectName, avroSchema, fail)
        register == autoRegister
                       \/ (registerOnMiss /\ isReg.err = NoErr /\ ~isReg.isRegistered)
        registered == RegisterNewSchema(reg, subjectName, avroSchema, fail)
        returned == IF register THEN registered.version ELSE isReg.version
        regAfter == IF register THEN registered.registry ELSE reg
        calls == IF autoRegister
                 THEN <<Call("RegisterNewSchema", subjectName, GoInt(0), avroSchema)>>
                 ELSE IF register
                 THEN <<Call("IsRegistered", subjectName, GoInt(0), avroSchema),
                        Call("RegisterNewSchema", subjectName, GoInt(0), avroSchema)>>
                 ELSE <<Call("IsRegistered", subjectName, GoInt(0), avroSchema)>>
        compiled == goavroNewCodec(avroSchema)
        failed(err) == [encoder |-> NoEncoder, err |-> err, version |-> returned,
                        registry |-> regAfter, calls |-> calls]
    IN  IF register /\ registered.err # NoErr THEN failed(registered.err)
        ELSE IF ~register /\ isReg.err # NoErr THEN failed(isReg.err)
        ELSE IF ~register /\ ~isReg.isRegistered THEN failed(ErrNotRegistered)
        ELSE IF compiled.err # NoErr THEN failed(compiled.err)
        ELSE [encoder |-> [subjectVersion |-> IF bindVersion THEN returned ELSE GoInt(0),
                           codec |-> compiled.codec],
              err |-> NoErr, version |-> returned,
              registry |-> regAfter, calls |-> calls]

NewEncoderRegisteringOnMiss(reg, autoRegister, subjectName, avroSchema, fail) ==
    NewEncoderVariant(reg, autoRegister, subjectName, avroSchema, fail, TRUE, TRUE)

NewEncoderUnboundVersion(reg, autoRegister, subjectName, avroSchema, fail) ==
    NewEncoderVariant(reg, autoRegister, subjectName, avroSchema, fail, FALSE, FALSE)

\* Mutation of NewEncoder: the schema is compiled first and the registry is
\* only called for a schema that compiles
NewEncoderCompilingFirst(reg, autoRegister, subjectName, avroSchema, fail) ==
    LET compiled == goavroNewCodec(avroSchema)
        checked == NewEncoderVariant(reg, autoRegister, subjectName, avroSchema, fail,
                                     FALSE, TRUE)
    IN  IF compiled.err # NoErr
        THEN [encoder |-> NoEncoder, err |-> compiled.err, version |-> GoInt(0),
              registry |-> reg, calls |-> << >>]
        ELSE checked

\* NewEncoder(client, autoRegister, subjectName, avroSchema):
\* [encoder, err, version, registry, calls], version being what the registry
\* returned and registry the registrations after the call
NewEncoder(reg, autoRegister, subjectName, avroSchema, fail) ==
    LET registered == RegisterNewSchema(reg, subjectName, avroSchema, fail)
        isReg == IsRegistered(reg, subjectName, avroSchema, fail)
        subjectVersion == IF autoRegister THEN registered.version ELSE isReg.version
        regAfter == IF autoRegister THEN registered.registry ELSE reg
        calls == IF autoRegister
                 THEN <<Call("RegisterNewSchema", subjectName, GoInt(0), avroSchema)>>
                 ELSE <<Call("IsRegistered", subjectName, GoInt(0), avroSchema)>>
        compiled == goavroNewCodec(avroSchema)
        failed(err) == [encoder |-> NoEncoder, err |-> err,
                        version |-> subjectVersion,
                        registry |-> regAfter, calls |-> calls]
    IN  IF autoRegister /\ registered.err # NoErr THEN failed(registered.err)
        ELSE IF ~autoRegister /\ isReg.err # NoErr THEN failed(isReg.err)
        ELSE IF ~autoRegister /\ ~isReg.isRegistered THEN failed(ErrNotRegistered)
        ELSE IF compiled.err # NoErr THEN failed(compiled.err)
        ELSE [encoder |-> [subjectVersion |-> subjectVersion,
                           codec |-> compiled.codec],
              err |-> NoErr, version |-> subjectVersion,
              registry |-> regAfter, calls |-> calls]

\* Mutation of Encoder.Encode: the payload is framed with the magic byte and
\* the bound version
EncoderEncodeFramed(e, native) ==
    LET enc == BinaryFromNative(e.codec, native)
    IN  IF e.codec = NilCodec
        THEN [avroBytes |-> NilSlice, err |-> NoErr, panic |-> TRUE]
        ELSE IF enc.err # NoErr
        THEN [avroBytes |-> Slice(enc.bytes), err |-> enc.err, panic |-> FALSE]
        ELSE [avroBytes |-> Slice((<<0>> \o bytesForSchemaID(e.subjectVersion))
                                     \o enc.bytes),
              err |-> NoErr, panic |-> FALSE]

\* e.Encode(native): [avroBytes, err, panic]; the zero Encoder's codec has no
\* encode function and calling it panics
EncoderEncode(e, native) ==
    LET enc == BinaryFromNative(e.codec, native)
    IN  IF e.codec = NilCodec
        THEN [avroBytes |-> NilSlice, err |-> NoErr, panic |-> TRUE]
        ELSE [avroBytes |-> Slice(enc.bytes), err |-> enc.err, panic |-> FALSE]

-----------------------------------------------------------------------------
(* The demo consumer (package main): it keeps the schema texts it fetched   *)
(* in schemaCache and compiles the text for every message.                  *)

\* getSubject(topic)
getSubject(topic) == topic \o "-value"

\* getSchemaBySubject(subject, versionID, schemaCache, client):
\* [schema, err, cache, calls], cache being schemaCache after the call
getSchemaBySubject(subject, versionID, cache, reg, fail) ==
    LET key == [subject |-> subject, versionID |-> versionID]
        got == GetSchemaFor(reg, key, fail)
        calls == <<Call("GetSchemaFor", subject, versionID, "")>>
    IN  IF key \in DOMAIN cache
        THEN [schema |-> cache[key], err |-> NoErr, cache |-> cache, calls |-> << >>]
        ELSE IF got.err # NoErr
        THEN [schema |-> "", err |-> got.err, cache |-> cache, calls |-> calls]
        ELSE [schema |-> got.schema, err |-> NoErr,
              cache |-> (key :> got.schema) @@ cache, calls |-> calls]

\* the *kafka.Message case of main's loop for a message of topic with value:
\* [native, err, panic, key, resolveErr, cache, calls].  Errors are printed
\* and the handling goes on: after a failed fetch or compile the codec is nil
\* and codec.NativeFromBinary panics.
HandleMessage(cache, reg, topic, value, fail) ==
    LET key == [subject |-> getSubject(topic),
                versionID |-> getSchemaID(SubSeq(value.arr, 2, 5))]
        got == getSchemaBySubject(key.subject, key.versionID, cache, reg, fail)
        compiled == goavroNewCodec(got.schema)
        dec == NativeFromBinary(compiled.codec, SubSeq(value.arr, 6, value.len))
        result(native, err, panic, k, resolveErr, cacheAfter, calls) ==
            [native |-> native, err |-> err, panic |-> panic, key |-> k,
             resolveErr |-> resolveErr, cache |-> cacheAfter, calls |-> calls]
    IN  IF value.len = 0
        THEN result(NilNative, NoErr, TRUE, NoKey, NoErr, cache, << >>)
        ELSE IF value.arr[1] # 0
        THEN result(NilNative, ErrMagic, FALSE, NoKey, NoErr, cache, << >>)
        ELSE IF Len(value.arr) < 5
        THEN result(NilNative, NoErr, TRUE, NoKey, NoErr, cache, << >>)
        ELSE IF value.len < 5
        THEN result(NilNative, got.err, TRUE, key, got.err, got.cache, got.calls)
        ELSE IF compiled.err # NoErr
        THEN result(NilNative, compiled.err, TRUE, key, got.err, got.cache,
                    got.calls)
        ELSE result(dec.native, dec.err, FALSE, key, got.err, got.cache, got.calls)

-----------------------------------------------------------------------------
(* Concurrent callers.  Codec has no lock: a goroutine inside getCodecFor   *)
(* reads the map (line 176), calls the registry (180), compiles (184) and   *)
(* writes the map (188) as separate steps that interleave with those of     *)
(* the other goroutines.                                                    *)

NoGoroutine ==
    [pc |-> "idle", key |-> NoKey, schema |-> "", codec |-> NilCodec, err |-> NoErr]

Goroutines == 1..NumGoroutines

ConcurrentKeys ==
    { [subject |-> "orders-value", versionID |-> GoInt(3)],
      [subject |-> "orders-key", versionID |-> GoInt(1)],
      [subject |-> "test-key", versionID |-> GoInt(1)] }

\* another goroutine is about to make a map access of one of the kinds
OtherAt(p, pcs) == \E q \in Goroutines \ {p} : goroutines[q].pc \in pcs

\* Two goroutines are at map accesses of which one is a write, with nothing
\* ordering the two: a data race on codecCache
CacheRace ==
    \E p \in Goroutines :
        goroutines[p].pc = "insert" /\ OtherAt(p, {"lookup", "insert"})

\* the outcomes of a map access: it completes, or, when it races with another
\* access, the run time may detect it and end the process with a fatal error
RaceOutcome(racing) ==
    \/ crashed' = FALSE
    \/ racing /\ crashed' = TRUE

concurrentFrame == <<registry, encoder, schemaCache, subjectNameStrategy, last, frame,
                     watchKey, watchLookups, watchFailed, watchResolved>>

\* Decode or Encode has built the key and calls c.getCodecFor(subjectVersion)
GoEnter(p) ==
    /\ ~crashed
    /\ goroutines[p].pc = "idle"
    /\ \E key \in ConcurrentKeys :
          goroutines' = [goroutines EXCEPT ![p] = [NoGoroutine EXCEPT
                                                     !.pc = "lookup", !.key = key]]
    /\ UNCHANGED <<codecCache, crashed, concurrentFrame>>

\* codec, ok := c.codecCache[subjectVersion]
GoLookup(p) ==
    /\ ~crashed
    /\ goroutines[p].pc = "lookup"
    /\ goroutines' =
          [goroutines EXCEPT ![p] =
              IF goroutines[p].key \in DOMAIN codecCache
              THEN [@ EXCEPT !.pc = "return", !.codec = codecCache[goroutines[p].key]]
              ELSE [@ EXCEPT !.pc = "fetch"]]
    /\ RaceOutcome(OtherAt(p, {"insert"}))
    /\ UNCHANGED <<codecCache, concurrentFrame>>

\* schema, err = c.client.GetSchemaFor(subjectVersion)
GoFetch(p) ==
    /\ ~crashed
    /\ goroutines[p].pc = "fetch"
    /\ \E fail \in BOOLEAN :
          LET got == GetSchemaFor(registry, goroutines[p].key, fail)
          IN  goroutines' =
                 [goroutines EXCEPT ![p] =
                     IF got.err # NoErr
                     THEN [@ EXCEPT !.pc = "return", !.err = got.err]
                     ELSE [@ EXCEPT !.pc = "compile", !.schema = got.schema]]
    /\ UNCHANGED <<codecCache, crashed, concurrentFrame>>

\* codec, err = goavro.NewCodec(schema)
GoCompile(p) ==
    /\ ~crashed
    /\ goroutines[p].pc = "compile"
    /\ LET compiled == goavroNewCodec(goroutines[p].schema)
       IN  goroutines' =
              [goroutines EXCEPT ![p] =
                  IF compiled.err # NoErr
                  THEN [@ EXCEPT !.pc = "return", !.err = compiled.err]
                  ELSE [@ EXCEPT !.pc = "insert", !.codec = compiled.codec]]
    /\ UNCHANGED <<codecCache, crashed, concurrentFrame>>

\* c.codecCache[subjectVersion] = codec
GoInsert(p) ==
    /\ ~crashed
    /\ goroutines[p].pc = "insert"
    /\ codecCache' = (goroutines[p].key :> goroutines[p].codec) @@ codecCache
    /\ goroutines' = [goroutines EXCEPT ![p] = [@ EXCEPT !.pc = "return"]]
    /\ RaceOutcome(OtherAt(p, {"lookup", "insert"}))
    /\ UNCHANGED concurrentFrame

\* return
GoReturn(p) ==
    /\ ~crashed
    /\ goroutines[p].pc = "return"
    /\ goroutines' = [goroutines EXCEPT ![p] = NoGoroutine]
    /\ UNCHANGED <<codecCache, crashed, concurrentFrame>>

-----------------------------------------------------------------------------
(* The callers.  A call runs a whole operation and leaves its arguments,   *)
(* results and registry traffic in last; Return is the caller taking the   *)
(* results, after which the next call is made.  Arguments are drawn from   *)
(* small sets.                                                             *)

Topics == {"orders", "test"}

\* c.SubscribeTopics([]string{"test"}, nil)
ConsumerTopic == "test"

Subjects == {getTopicNameStrategy(t, k) : t \in Topics, k \in BOOLEAN}

Natives == {Long(1), Long(0 - 3), String(<<97>>)}

\* a schema registered as version 3 of "orders-value" (the scenario of spec
\* section 8), one registered for keys, one for the values of the topic the
\* demo consumer reads, one whose version does not fit the 32 bit header
\* (2^32 + 3), and one the registry holds that does not compile
SeedRegistry ==
    { [subject |-> "orders-value", version |-> GoInt(3), schema |-> SLong],
      [subject |-> "orders-key", version |-> GoInt(1), schema |-> SString],
      [subject |-> "test-value", version |-> GoInt(1), schema |-> SString],
      [subject |-> "test-value", version |-> <<Limb, 3>>, schema |-> SLong],
      [subject |-> "test-key", version |-> GoInt(1), schema |-> SBad] }

Payloads == {<< >>, <<2>>, <<5>>, <<2, 97>>}

Frames == {(<<m, 0, 0, 0, b>>) \o p : m \in {0, 1}, b \in {1, 3, 4}, p \in Payloads}

ShortArrays == {<< >>, <<0>>, <<1, 0>>, <<0, 0, 0, 1>>, <<0, 0, 0, 0, 3, 2>>}

ShortLen(arr) == IF Len(arr) < 4 THEN Len(arr) ELSE 4

DecodeInputs ==
    {Slice(f) : f \in Frames}
        \cup UNION {{SliceOf(arr, n) : n \in 0..ShortLen(arr)} : arr \in ShortArrays}

WatchKeys ==
    { [subject |-> "orders-value", versionID |-> GoInt(3)],
      [subject |-> "test-key", versionID |-> GoInt(1)],
      [subject |-> "test-value", versionID |-> GoInt(1)],
      [subject |-> "test-value", versionID |-> GoInt(3)] }

NoCall ==
    [op |-> "none", topic |-> "", isKey |-> FALSE, subject |-> "", schema |-> "",
     native |-> NilNative, data |-> NilSlice, autoRegister |-> FALSE,
     err |-> NoErr, panic |-> FALSE, out |-> NilSlice, result |-> NilNative,
     key |-> NoKey, resolveErr |-> NoErr, version |-> GoInt(0), calls |-> << >>]

NoFrame ==
    [topic |-> "", isKey |-> FALSE, schema |-> "", native |-> NilNative,
     version |-> GoInt(0), data |-> NilSlice]

SchemaLookups(calls, key) ==
    Cardinality({i \in 1..Len(calls) :
                    /\ calls[i].fn = "GetSchemaFor"
                    /\ calls[i].subject = key.subject
                    /\ calls[i].version = key.versionID})

\* the history of the watched key after a call that resolved key with
\* resolveErr, making the registry calls
Watch(calls, key, resolveErr) ==
    /\ watchLookups + SchemaLookups(calls, watchKey) <= MaxLookups
    /\ watchLookups' = watchLookups + SchemaLookups(calls, watchKey)
    /\ watchFailed' = (watchFailed \/ (key = watchKey /\ resolveErr # NoErr))
    /\ watchResolved' =
          (watchResolved
             \/ (key = watchKey /\ resolveErr = NoErr
                   /\ SchemaLookups(calls, watchKey) > 0))
    /\ UNCHANGED watchKey

watchVars == <<watchKey, watchLookups, watchFailed, watchResolved>>

Idle == ~crashed /\ last.op = "none"

Init ==
    /\ registry = SeedRegistry
    /\ codecCache = << >>
    /\ encoder = NoEncoder
    /\ schemaCache = << >>
    /\ subjectNameStrategy = "getTopicNameStrategy"
    /\ goroutines = [p \in 1..NumGoroutines |-> NoGoroutine]
    /\ crashed = FALSE
    /\ last = NoCall
    /\ frame = NoFrame
    /\ watchKey \in WatchKeys
    /\ watchLookups = 0
    /\ watchFailed = FALSE
    /\ watchResolved = FALSE

DecodeCall ==
    /\ Idle
    /\ \E topic \in Topics, isKey \in BOOLEAN, data \in DecodeInputs \cup {frame.data},
          fail \in BOOLEAN :
          LET r == Decode(codecCache, registry, topic, isKey, data, fail)
          IN  /\ codecCache' = r.cache
              /\ crashed' = r.panic
              /\ Watch(r.calls, r.key, r.resolveErr)
              /\ last' = [NoCall EXCEPT !.op = "Decode", !.topic = topic,
                             !.isKey = isKey, !.data = data, !.err = r.err,
                             !.panic = r.panic, !.result = r.native,
                             !.key = r.key, !.resolveErr = r.resolveErr,
                             !.calls = r.calls]
    /\ UNCHANGED <<registry, encoder, schemaCache, subjectNameStrategy, goroutines, frame>>

EncodeCall ==
    /\ Idle
    /\ \E topic \in Topics, isKey \in BOOLEAN, schema \in Schemas, native \in Natives,
          failVersion \in BOOLEAN, failSchema \in BOOLEAN :
          LET r == Encode(codecCache, registry, topic, isKey, schema, native,
                          failVersion, failSchema)
          IN  /\ codecCache' = r.cache
              /\ registry' = r.registry
              /\ Watch(r.calls, r.key, r.resolveErr)
              /\ last' = [NoCall EXCEPT !.op = "Encode", !.topic = topic,
                             !.isKey = isKey, !.schema = schema,
                             !.native = native, !.err = r.err, !.out = r.data,
                             !.key = r.key, !.resolveErr = r.resolveErr,
                             !.version = r.version, !.calls = r.calls]
              /\ frame' = IF r.err = NoErr
                          THEN [topic |-> topic, isKey |-> isKey, schema |-> schema,
                                native |-> native, version |-> r.version,
                                data |-> r.data]
                          ELSE frame
    /\ UNCHANGED <<encoder, schemaCache, subjectNameStrategy, goroutines, crashed>>

NewEncoderCall ==
    /\ Idle
    /\ \E autoRegister \in BOOLEAN, subjectName \in Subjects, avroSchema \in Schemas,
          fail \in BOOLEAN :
          LET r == NewEncoder(registry, autoRegister, subjectName, avroSchema, fail)
          IN  /\ Cardinality(r.registry) <= Cardinality(SeedRegistry) + MaxNewRegistrations
              /\ registry' = r.registry
              /\ encoder' = r.encoder
              /\ last' = [NoCall EXCEPT !.op = "NewEncoder",
                             !.autoRegister = autoRegister,
                             !.subject = subjectName, !.schema = avroSchema,
                             !.err = r.err, !.version = r.version,
                             !.calls = r.calls]
    /\ UNCHANGED <<codecCache, schemaCache, subjectNameStrategy, goroutines, crashed,
                   frame, watchVars>>

EncoderEncodeCall ==
    /\ Idle
    /\ \E native \in Natives :
          LET r == EncoderEncode(encoder, native)
          IN  /\ crashed' = r.panic
              /\ last' = [NoCall EXCEPT !.op = "Encoder.Encode",
                             !.native = native, !.err = r.err,
                             !.panic = r.panic, !.out = r.avroBytes]
    /\ UNCHANGED <<registry, codecCache, encoder, schemaCache, subjectNameStrategy,
                   goroutines, frame, watchVars>>

\* the consumer polls a message of the topic it subscribed to
PollMessage ==
    /\ Idle
    /\ \E value \in DecodeInputs, fail \in BOOLEAN :
          LET r == HandleMessage(schemaCache, registry, ConsumerTopic, value, fail)
          IN  /\ schemaCache' = r.cache
              /\ crashed' = r.panic
              /\ Watch(r.calls, r.key, r.resolveErr)
              /\ last' = [NoCall EXCEPT !.op = "Message", !.topic = ConsumerTopic,
                             !.data = value, !.err = r.err, !.panic = r.panic,
                             !.result = r.native, !.key = r.key,
                             !.resolveErr = r.resolveErr, !.calls = r.calls]
    /\ UNCHANGED <<registry, codecCache, encoder, subjectNameStrategy, goroutines, frame>>

\* c.subjectNameStrategy = f: code of the package replaces the strategy of
\* the Codec between two calls
ReplaceStrategy ==
    /\ Idle
    /\ subjectNameStrategy' \in SubjectNameStrategies \ {subjectNameStrategy}
    /\ UNCHANGED <<registry, codecCache, encoder, schemaCache, goroutines, crashed,
                   last, frame, watchVars>>

Return ==
    /\ ~crashed
    /\ last.op # "none"
    /\ last' = NoCall
    /\ UNCHANGED <<registry, codecCache, encoder, schemaCache, subjectNameStrategy,
                   goroutines, crashed, frame, watchVars>>

\* the Codec in use: Decode and Encode calls on one Codec, one after the other
Next == DecodeCall \/ EncodeCall \/ Return

Spec == Init /\ [][Next]_vars

\* the Codec in use by code that replaces its naming strategy
NextStrategy == DecodeCall \/ EncodeCall \/ ReplaceStrategy \/ Return

SpecStrategy == Init /\ [][NextStrategy]_vars

\* the single-schema Encoder in use: construction, then Encode calls
NextEncoder == NewEncoderCall \/ EncoderEncodeCall \/ Return

SpecEncoder == Init /\ [][NextEncoder]_vars

\* the demo consumer handling the messages it polls
NextConsumer == PollMessage \/ Return

SpecConsumer == Init /\ [][NextConsumer]_vars

\* one Codec called from several goroutines at once
NextConcurrent ==
    \E p \in Goroutines :
        \/ GoEnter(p)
        \/ GoLookup(p)
        \/ GoFetch(p)
        \/ GoCompile(p)
        \/ GoInsert(p)
        \/ GoReturn(p)

SpecConcurrent == Init /\ [][NextConcurrent]_vars

-----------------------------------------------------------------------------
(* The claims *)

\* the subject of spec section 4.1 for (topic, isKey)
DerivedSubject(topic, isKey) == IF isKey THEN topic \o "-key" ELSE topic \o "-value"

\* the registrations of the schema text under the subject derived from the
\* arguments of call
RegistrationsFor(call) ==
    {r \in registry : r.subject = DerivedSubject(call.topic, call.isKey)
                        /\ r.schema = call.schema}

\* the native value is one the schema describes
Conforms(schema, native) ==
    \/ schema = SLong /\ native.kind = "long"
    \/ schema = SString /\ native.kind = "string"

\* the call being returned decodes the frame of the last successful Encode
\* for the topic and flag it was encoded with
DecodesFrame ==
    /\ last.op = "Decode"
    /\ frame # NoFrame
    /\ last.data = frame.data
    /\ last.topic = frame.topic
    /\ last.isKey = frame.isKey

InvalidWireFormat == ErrMagic

\* C1 as stated: for every topic, isKey, native value v and schema s
\* registered under the derived subject, Encode succeeds and Decode of the
\* bytes it returned yields v with no error.
C1_RoundTripEveryValue ==
    /\ (last.op = "Encode" /\ RegistrationsFor(last) # {}) => last.err = NoErr
    /\ DecodesFrame => (last.err = NoErr /\ ~last.panic /\ last.result = frame.native)

\* C1 amended: when s is registered under the derived subject with a version
\* in 0 .. 2^32 - 1, v is a value that s describes and the registry answers
\* the lookups, Encode succeeds; Decode of the bytes it returned, for the
\* same topic and flag, then yields v with no error, whatever calls were made
\* before and in between.
C1_RoundTrip ==
    /\ ( /\ last.op = "Encode"
         /\ \E r \in RegistrationsFor(last) : FitsUint32(r.version)
         /\ Conforms(last.schema, last.native)
         /\ last.err # ErrRegistry )
          => (last.err = NoErr /\ last.out.len >= 5)
    /\ (DecodesFrame /\ FitsUint32(frame.version))
          => (last.err = NoErr /\ ~last.panic /\ last.result = frame.native)

C1_Witness ==
    /\ DecodesFrame
    /\ FitsUint32(frame.version)
    /\ last.err = NoErr
    /\ last.result = frame.native
    /\ last.result = Long(0 - 3)

\* C2 as stated: for a fixed key the registry's schema lookup is invoked at
\* most once over all Decode and Encode calls on one cache.
C2_LookupAtMostOnce == watchLookups <= 1

\* C2 amended: a call invokes the schema lookup for a key at most once, never
\* once a resolution of the key has succeeded, and a second time only after a
\* resolution of the key failed.
C2_LookupOnlyUntilResolved ==
    [][watchLookups' # watchLookups
          => /\ watchLookups' = watchLookups + 1
             /\ ~watchResolved
             /\ (watchLookups > 0 => watchFailed)]_vars

\* a call resolving the watched key after it was resolved: a cache hit
C2_Witness ==
    /\ last.op \in {"Decode", "Encode"}
    /\ last.key = watchKey
    /\ last.err = NoErr
    /\ SchemaLookups(last.calls, watchKey) = 0
    /\ watchResolved
    /\ watchLookups = 1

\* C3: Decode of an input shorter than 5 bytes (empty, or 1 to 4 bytes with a
\* zero first byte) returns a framing error to its caller and no value.
C3_ShortInputFramingError ==
    (last.op = "Decode" /\ last.data.len < 5
        /\ (last.data.len = 0 \/ last.data.arr[1] = 0))
      => (~last.panic /\ last.err = InvalidWireFormat /\ last.result = NilNative)

\* C4: Decode of an input whose byte 0 is not zero fails with
\* InvalidWireFormat and no value, whatever the other bytes are, without
\* querying the registry and without changing the codec cache.
C4_BadMagicByte ==
    [][(last'.op = "Decode" /\ last'.data.len >= 1 /\ last'.data.arr[1] # 0)
          => /\ last'.err = InvalidWireFormat
             /\ ~last'.panic
             /\ last'.result = NilNative
             /\ last'.calls = << >>
             /\ codecCache' = codecCache
             /\ registry' = registry]_vars

C4_Witness ==
    /\ last.op = "Decode"
    /\ last.data.len >= 5
    /\ last.data.arr[1] = 1
    /\ last.err = InvalidWireFormat
    /\ DOMAIN codecCache # {}

\* C5: when the resolution fails in Decode or Encode (the schema fetch fails
\* or the fetched text does not compile), the cache is as it was before the
\* call and holds no entry for the key; the next call for the key queries the
\* registry again.
C5_FailedResolutionLeavesCache ==
    [][(last'.op \in {"Decode", "Encode"} /\ last' # last)
          => /\ last'.resolveErr # NoErr
                  => /\ codecCache' = codecCache
                     /\ last'.key \notin DOMAIN codecCache'
                     /\ last'.err = last'.resolveErr
             /\ (last'.key = watchKey /\ watchFailed /\ ~watchResolved)
                  => watchLookups' = watchLookups + 1
             /\ \A k \in DOMAIN codecCache' : codecCache'[k] # NilCodec]_vars

\* the watched key was resolved by a call made after a resolution of it failed
C5_Witness ==
    /\ watchFailed
    /\ watchResolved
    /\ watchKey \in DOMAIN codecCache
    /\ last.key = watchKey
    /\ last.err = NoErr

\* C6: lookups and insertions on the cache are serialized: no state is
\* reachable in which one caller writes the cache's storage while another
\* caller reads or writes it.
C6_CacheAccessSerialized == ~CacheRace

\* C7 as stated: a successful Encode returns one byte 0x00, the 4 byte
\* big-endian encoding of the version the registry returned for (subject,
\* schemaText), and the codec's serialization of the value, and nothing else.
C7_FrameCarriesVersion ==
    (last.op = "Encode" /\ last.err = NoErr)
      => LET out == Bytes(last.out)
             payload == BinaryFromNative(codecCache[last.key], last.native).bytes
         IN  /\ Len(out) = 5 + Len(payload)
             /\ out[1] = 0
             /\ \A i \in 2..5 : out[i] \in 0..255
             /\ \E r \in RegistrationsFor(last) :
                   r.version = <<out[2] * 256 + out[3], out[4] * 256 + out[5]>>
             /\ SubSeq(out, 6, Len(out)) = payload

\* C7 amended: a successful Encode returns one byte 0x00, the 4 byte
\* big-endian encoding of v mod 2^32, v being the version the registry
\* returned for (subject, schemaText), and the codec's serialization of the
\* value, and nothing else.
C7_FrameLayout ==
    (last.op = "Encode" /\ last.err = NoErr)
      => LET out == Bytes(last.out)
             payload == BinaryFromNative(codecCache[last.key], last.native).bytes
         IN  /\ Len(out) = 5 + Len(payload)
             /\ out[1] = 0
             /\ \A i \in 2..5 : out[i] \in 0..255
             /\ \E r \in RegistrationsFor(last) :
                   /\ out[2] * 256 + out[3] = r.version[1] % Limb
                   /\ out[4] * 256 + out[5] = r.version[2]
             /\ SubSeq(out, 6, Len(out)) = payload

\* the scenario of spec section 8: {"orders", value, version 3}, the long 1
C7_Witness ==
    /\ last.op = "Encode"
    /\ last.err = NoErr
    /\ last.topic = "orders"
    /\ ~last.isKey
    /\ last.native = Long(1)
    /\ Bytes(last.out) = <<0, 0, 0, 0, 3, 2>>

\* C8: Encode never registers a schema: the registrations are the same after
\* every Encode call, and when none matches (subject, schemaText) Encode
\* returns the registry client's error and no frame.
C8_EncodeNeverRegisters ==
    [][last'.op = "Encode"
          => /\ registry' = registry
             /\ \A i \in 1..Len(last'.calls) :
                   last'.calls[i].fn \in {"GetVersionFor", "GetSchemaFor"}
             /\ {r \in registry : r.subject = DerivedSubject(last'.topic, last'.isKey)
                                    /\ r.schema = last'.schema} = {}
                  => /\ last'.err \in {ErrNotFound, ErrRegistry}
                     /\ last'.out = NilSlice]_vars

C8_Witness ==
    /\ last.op = "Encode"
    /\ RegistrationsFor(last) = {}
    /\ last.err = ErrNotFound
    /\ last.out = NilSlice
    /\ registry = SeedRegistry

C10_AutoRegisterBindsVersion ==
    [][(last'.op = "NewEncoder" /\ last'.autoRegister)
          => /\ Len(last'.calls) = 1
             /\ last'.calls[1].fn = "RegisterNewSchema"
             /\ last'.calls[1].subject = last'.subject
             /\ last'.calls[1].schema = last'.schema
             /\ last'.err = NoErr
                  => LET regs == {r \in registry' : r.subject = last'.subject
                                                     /\ r.schema = last'.schema}
                     IN  /\ Cardinality(regs) = 1
                         /\ \A r \in regs : encoder'.subjectVersion = r.version
                         /\ encoder'.codec # NilCodec]_vars

\* a schema registered by the call as version 4 of "orders-value"
C10_Witness ==
    /\ last.op = "NewEncoder"
    /\ last.autoRegister
    /\ last.err = NoErr
    /\ last.subject = "orders-value"
    /\ registry # SeedRegistry
    /\ encoder.subjectVersion = GoInt(4)

\* the subjects of the registry queries the call being returned made
QueriedSubjects == {last.calls[i].subject : i \in 1..Len(last.calls)}

\* C11: the subject that Encode and Decode use to query the registry and to
\* build the cache key is the one the Codec's configured subjectNameStrategy
\* returns for (topic, isKey), whichever strategy the Codec holds.
C11_ConfiguredStrategyNamesSubject ==
    LET subject == ApplySubjectNameStrategy(subjectNameStrategy, last.topic, last.isKey)
    IN  (last.op \in {"Encode", "Decode"})
          => /\ QueriedSubjects \subseteq {subject}
             /\ last.key # NoKey => last.key.subject = subject

\* the subject Encode queries the registry with for (topic, isKey)
EncodePathSubject(topic, isKey) ==
    Encode(codecCache, registry, topic, isKey, SLong, Long(1), FALSE, FALSE).calls[1].subject

\* the subject of the key the decode path builds for (topic, isKey)
DecodePathSubject(topic, isKey) ==
    extractSubjectAndVersionFromData(topic, isKey, Slice(<<0, 0, 0, 0, 3, 2>>)).key.subject

\* C12: for every topic and isKey flag the subject computed on the encode
\* path equals the one computed on the decode path, and it is topic followed
\* by "-key" when isKey is true and by "-value" otherwise, on every call made
\* in every state.
C12_SubjectNaming ==
    /\ \A topic \in Topics, isKey \in BOOLEAN :
          /\ EncodePathSubject(topic, isKey) = DecodePathSubject(topic, isKey)
          /\ EncodePathSubject(topic, isKey) = DerivedSubject(topic, isKey)
    /\ (last.op \in {"Encode", "Decode"})
          => /\ QueriedSubjects \subseteq {DerivedSubject(last.topic, last.isKey)}
             /\ last.key # NoKey
                  => last.key.subject = DerivedSubject(last.topic, last.isKey)

\* a Decode of a frame that Encode produced for a key resolves "orders-key",
\* the subject Encode queried
C12_Witness ==
    /\ DecodesFrame
    /\ last.isKey
    /\ last.key.subject = "orders-key"
    /\ QueriedSubjects \subseteq {"orders-key"}

\* C13: Decode and Encode are all-or-nothing: a Decode that returns an error
\* returns the nil value, and an Encode that returns an error returns the
\* empty (nil) byte slice.
C13_AllOrNothing ==
    /\ (last.op = "Decode" /\ last.err # NoErr) => last.result = NilNative
    /\ (last.op = "Encode" /\ last.err # NoErr) => last.out = NilSlice

\* the error kinds of the claim have occurred: an Encode whose serialization
\* failed after the header's version was resolved, or a Decode whose payload
\* did not decode after the codec was resolved
C13_Witness ==
    \/ /\ last.op = "Encode"
       /\ last.err = ErrEncode
       /\ last.key \in DOMAIN codecCache
       /\ last.out = NilSlice
    \/ /\ last.op = "Decode"
       /\ last.err = ErrDecode
       /\ last.key \in DOMAIN codecCache
       /\ last.result = NilNative

\* C14: Encoder.Encode on a constructed Encoder makes no registry call and
\* touches no cache, leaves the bound version and codec as they were, and
\* returns exactly the bound codec's serialization of the value, with no
\* magic byte and no version header.
C14_EncoderEncodeIsPure ==
    [][(last'.op = "Encoder.Encode" /\ encoder # NoEncoder)
          => LET enc == BinaryFromNative(encoder.codec, last'.native)
             IN  /\ last'.calls = << >>
                 /\ registry' = registry
                 /\ codecCache' = codecCache
                 /\ encoder' = encoder
                 /\ ~last'.panic
                 /\ last'.err = enc.err
                 /\ Bytes(last'.out) = enc.bytes]_vars

\* an Encoder bound to version 3 of "orders-value" serializes the long 1 as
\* the single payload byte 2
C14_Witness ==
    /\ last.op = "Encoder.Encode"
    /\ encoder.subjectVersion = GoInt(3)
    /\ encoder.codec = [schema |-> SLong]
    /\ last.native = Long(1)
    /\ last.err = NoErr
    /\ Bytes(last.out) = <<2>>

\* C15: cache entries are stable: an entry the codec cache holds is held,
\* with the same codec, after every Decode and Encode call, whatever key the
\* call is for and whether it succeeds; and a call that resolves a cached key
\* gets that codec: it fetches and compiles nothing and its result is the one
\* the cached codec gives.
C15_CacheEntriesStable ==
    [][/\ \A key \in DOMAIN codecCache :
             key \in DOMAIN codecCache' /\ codecCache'[key] = codecCache[key]
       /\ (last'.op \in {"Encode", "Decode"} /\ last'.key \in DOMAIN codecCache)
            => LET codec == codecCache[last'.key]
                   enc == BinaryFromNative(codec, last'.native)
                   dec == NativeFromBinary(codec,
                              SubSeq(last'.data.arr, 6, last'.data.len))
               IN  /\ last'.calls = IF last'.op = "Encode"
                                    THEN <<Call("GetVersionFor", last'.key.subject,
                                                GoInt(0), last'.schema)>>
                                    ELSE << >>
                   /\ last'.resolveErr = NoErr
                   /\ last'.op = "Encode"
                        => /\ last'.err = enc.err
                           /\ enc.err = NoErr
                                => SubSeq(Bytes(last'.out), 6, last'.out.len) = enc.bytes
                   /\ (last'.op = "Decode" /\ ~last'.panic)
                        => last'.err = dec.err /\ last'.result = dec.native]_vars

\* with several entries in the cache, a call has resolved a cached key
\* without a lookup and another call has then made the entry of another key
C15_Witness ==
    /\ Cardinality(DOMAIN codecCache) >= 3
    /\ watchResolved
    /\ watchKey \in DOMAIN codecCache
    /\ last.op = "Decode"
    /\ last.key = watchKey
    /\ last.calls = << >>
    /\ last.err = NoErr

\* the registry calls of the call being returned that are calls of fn
CallsOf(call, fn) == {i \in 1..Len(call.calls) : call.calls[i].fn = fn}

\* C16: every Encode call issues exactly one GetVersionFor query, first and
\* also when the codec of the resulting key is cached, followed by at most one
\* GetSchemaFor query, for that key, and by none on a cache hit; every Decode
\* call issues no GetVersionFor query and at most one GetSchemaFor query;
\* Encode never compiles the caller's schemaText directly: the codec of a key
\* that was not cached is made from the text a GetSchemaFor query returned.
C16_RegistryTrafficPerCall ==
    [][/\ last'.op = "Encode"
            => /\ Len(last'.calls) \in {1, 2}
               /\ last'.calls[1] = Call("GetVersionFor",
                                        DerivedSubject(last'.topic, last'.isKey),
                                        GoInt(0), last'.schema)
               /\ Len(last'.calls) = 2
                    => /\ last'.calls[2] = Call("GetSchemaFor", last'.key.subject,
                                                last'.key.versionID, "")
                       /\ last'.key.versionID = last'.version
                       /\ last'.key \notin DOMAIN codecCache
               /\ last'.key \in DOMAIN codecCache => Len(last'.calls) = 1
               /\ (last'.key # NoKey /\ last'.key \notin DOMAIN codecCache)
                    => Len(last'.calls) = 2
               /\ \A key \in DOMAIN codecCache' \ DOMAIN codecCache :
                     /\ key = last'.key
                     /\ Len(last'.calls) = 2
                     /\ codecCache'[key] =
                           goavroNewCodec(GetSchemaFor(registry, key, FALSE).schema).codec
       /\ last'.op = "Decode"
            => /\ Len(last'.calls) \in {0, 1}
               /\ CallsOf(last', "GetVersionFor") = {}
               /\ Len(last'.calls) = 1
                    => /\ last'.calls[1] = Call("GetSchemaFor", last'.key.subject,
                                                last'.key.versionID, "")
                       /\ last'.key \notin DOMAIN codecCache
               /\ last'.key \in DOMAIN codecCache => Len(last'.calls) = 0]_vars

\* an Encode for a key whose codec is cached has made its GetVersionFor
\* query and no other, and returned a frame
C16_Witness ==
    /\ last.op = "Encode"
    /\ last.err = NoErr
    /\ last.key \in DOMAIN codecCache
    /\ CallsOf(last, "GetVersionFor") = {1}
    /\ CallsOf(last, "GetSchemaFor") = {}
    /\ watchKey = last.key
    /\ watchLookups = 1

\* C17: in NewEncoder with autoRegister=true the registration precedes the
\* compile: the registry is called once, with RegisterNewSchema; a compile
\* error is returned with no usable encoder and with the schema registered;
\* a registration error is returned as the registry gave it, with no usable
\* encoder and the registrations unchanged, also for a text that would not
\* compile.
C17_RegistrationPrecedesCompile ==
    [][(last'.op = "NewEncoder" /\ last'.autoRegister)
          => /\ last'.calls = <<Call("RegisterNewSchema", last'.subject, GoInt(0),
                                     last'.schema)>>
             /\ last'.err \in {NoErr, ErrRegistry, ErrCompile}
             /\ last'.err = ErrCompile
                  => /\ goavroNewCodec(last'.schema).err = ErrCompile
                     /\ Registered(registry', last'.subject, last'.schema) # {}
                     /\ encoder' = NoEncoder
             /\ last'.err = ErrRegistry
                  => /\ registry' = registry
                     /\ encoder' = NoEncoder
             /\ last'.err = NoErr
                  => /\ goavroNewCodec(last'.schema).err = NoErr
                     /\ Registered(registry', last'.subject, last'.schema) # {}]_vars

\* the registry accepted, as a new registration, a text that does not
\* compile: NewEncoder returned the compile error and the registration stays
C17_Witness ==
    /\ last.op = "NewEncoder"
    /\ last.autoRegister
    /\ last.schema = SBad
    /\ last.err = ErrCompile
    /\ encoder = NoEncoder
    /\ Registered(SeedRegistry, last.subject, SBad) = {}
    /\ Registered(registry, last.subject, SBad) # {}

\* versions around the limits of the header's range, -2^16 .. 2^32 + 2^17
VersionSamples ==
    {<<q, r>> : q \in {0 - 1, 0, 1, 255, 256, Limb - 1, Limb, Limb + 1},
                r \in {0, 1, 255, 256, Limb - 1}}

\* v mod 2^32
Mod32(v) == <<v[1] % Limb, v[2]>>

\* C18: the version header round-trips as an unsigned 32 bit big-endian
\* integer: getSchemaID(bytesForSchemaID(v)) = v for every v in 0 .. 2^32 - 1,
\* byte 1 of the frame (the first of the four) being the most significant;
\* for every v the header carries v mod 2^32, and Decode of a frame that
\* Encode produced resolves the key (subject, v mod 2^32), v being the version
\* the registry returned to Encode.
C18_VersionHeader ==
    /\ \A v \in VersionSamples :
          LET b == bytesForSchemaID(v)
          IN  /\ Len(b) = 4
              /\ \A i \in 1..4 : b[i] \in 0..255
              /\ b[1] * 256 + b[2] = Mod32(v)[1]
              /\ b[3] * 256 + b[4] = Mod32(v)[2]
              /\ getSchemaID(b) = Mod32(v)
              /\ FitsUint32(v) => getSchemaID(b) = v
    /\ (last.op = "Encode" /\ last.err = NoErr)
          => getSchemaID(SubSeq(Bytes(last.out), 2, 5)) = Mod32(last.version)
    /\ (DecodesFrame /\ last.key # NoKey)
          => last.key = [subject |-> DerivedSubject(frame.topic, frame.isKey),
                         versionID |-> Mod32(frame.version)]

\* the schema is registered as version 2^32 + 3: the frame of Encode carries
\* 3 and Decode of it looks for version 3 of the subject, which is not there
C18_Witness ==
    /\ DecodesFrame
    /\ frame.version = <<Limb, 3>>
    /\ SubSeq(Bytes(frame.data), 2, 5) = <<0, 0, 0, 3>>
    /\ last.key = [subject |-> "test-value", versionID |-> GoInt(3)]
    /\ last.err = ErrNotFound

=============================================================================
